---- MODULE Spec2Model ----
(***************************************************************************)
(* Model of the asynchronous task subsystem of jimeng-free-api-all:        *)
(*   - TaskStore (lib/task-store.ts): Redis-or-memory store of Task         *)
(*     records, degrading to memory on any Redis failure;                   *)
(*   - TaskQueue (lib/task-queue.ts): bounded-concurrency FIFO executor;    *)
(*   - the async job bodies of the generation routes, the cancel route and  *)
(*     the webhook notifier.                                                *)
(*                                                                         *)
(* Scheduling.  Node runs one synchronous segment at a time, and a handler  *)
(* gives way only at an `await`.  Every action is one segment, from the     *)
(* resumption of a handler to its next await.                               *)
(*   - An await on a Redis command ends when Redis replies.  There is one   *)
(*     connection: commands take effect in the order they are issued and    *)
(*     are answered in that order (fifo).  Whether a command resolves or    *)
(*     rejects is chosen when it is issued and seen when its handler        *)
(*     resumes.                                                             *)
(*   - An await on a promise that is already settled (a memory-mode get(),  *)
(*     the return of an async function) resumes in the current turn of the  *)
(*     event loop: the handler joins the tail of `ready`, the microtask     *)
(*     queue, whose head is the next handler to run.  A batch of Redis      *)
(*     replies settles the promises of the commands it answers in order,    *)
(*     so their handlers join `ready` in that order.                        *)
(*   - Everything else (an HTTP request, the end of a generation, a webhook *)
(*     answer, a timer, a batch of Redis replies, a Redis error event) is a *)
(*     new turn, and starts only when `ready` is empty.                     *)
(*                                                                         *)
(* Specifications:                                                          *)
(*   SpecQueue  the TaskQueue driven by any caller, with opaque job bodies  *)
(*              that return or throw at any moment;                         *)
(*   Spec       the program: submit routes, job bodies, cancel route, for   *)
(*              requests that carry no callback_url;                        *)
(*   SpecHook   the program when the first request carries a callback_url,  *)
(*              with the webhook notifier;                                  *)
(*   SpecWebhook  one sendWebhook call, for any record and any answers;     *)
(*   SpecStore  the TaskStore alone, from before init(): creates, a series  *)
(*              of get/update/list/delete calls, Redis error and connect    *)
(*              events, the sweep timer and the clock.                      *)
(* Time is counted in retention windows (EXPIRE_HOURS).  The program        *)
(* specifications cover runs shorter than one window, so no record expires  *)
(* in them; in SpecStore the clock advances between calls.                  *)
(***************************************************************************)
EXTENDS Integers, Sequences, FiniteSets, TLC

VARIABLES
    tasks,          \* the task ids of this run (uuid()s, all distinct)
    maxConcurrent,  \* TaskQueue.maxConcurrent
    running,        \* TaskQueue.running
    queue,          \* TaskQueue.queue: the waiting QueueItems, as task ids
    redis,          \* TaskStore.redis is non-null
    useRedis,       \* TaskStore.useRedis
    cleanupTimer,   \* TaskStore.cleanupTimer is set
    redisData,      \* Redis: key jimeng:task:<id> -> JSON string, or NoKey
    redisTtl,       \* Redis: expiry deadline of the key, 0 for none
    redisIdx,       \* Redis: the set jimeng:task_ids
    memoryStore,    \* TaskStore.memoryStore: id -> Task, or NoTask
    now,            \* Date.now(), in retention windows
    thr,            \* every handler: its position and locals
    fifo,           \* handlers awaiting a Redis reply, in the order of their commands
    ready,          \* the microtask queue: handlers resuming in the current turn
    started,        \* history: task ids in the order their job bodies started
    pushed,         \* history: task ids in the order they joined the waiting list
    removed,        \* history: ids whose entry cancelQueued removed
    outcome,        \* history: how each job body ended
    rel,            \* history: number of running-- executed for each job
    generated,      \* history: the result each task's generation returned, 0 for none
    lastCancel,     \* history: the last direct cancelQueued call and its return value
    hook            \* history: for each task, what its sendWebhook calls did, in order

qvars == <<maxConcurrent, running, queue>>
svars == <<redis, useRedis, cleanupTimer, redisData, redisTtl, redisIdx, memoryStore>>
qhvars == <<started, pushed, removed, outcome, rel, generated, lastCancel>>
hvars == <<started, pushed, removed, outcome, rel, generated, lastCancel, hook>>
vars  == <<tasks, maxConcurrent, running, queue, redis, useRedis, cleanupTimer,
           redisData, redisTtl, redisIdx, memoryStore, now, thr, fifo, ready,
           started, pushed, removed, outcome, rel, generated, lastCancel, hook>>

(* ------------------------------ bounds -------------------------------- *)
NQueueJobs == 3        \* jobs submitted to the queue in SpecQueue
NTasks == 2            \* tasks submitted in Spec
MaxCapacity == 2       \* maxConcurrent ranges over 1..MaxCapacity
NResults == 1          \* distinct results a generation can return
NCancels == 1          \* cancel requests made in Spec
MaxFailures == 1       \* Redis commands that reject in a run
NClients == 3          \* calls of get/update/list/delete in a run of SpecStore
MaxConnects == 1       \* reconnections of the Redis client in SpecStore
MaxNow == 3            \* the clock of SpecStore runs from 1 to MaxNow

(* --------------------------- Task records ----------------------------- *)
EXPIRE_HOURS == 1

Fields == {"id", "status", "progress", "completed_at", "result", "error", "callback_url"}
Terminal == {"completed", "failed", "cancelled"}

\* the value of a field that is `undefined`
Undefined(k) == IF k \in {"status", "error", "callback_url"} THEN "undefined" ELSE 0

NoTask == [null |-> TRUE]      \* get()'s `null`
NoKey  == [nil |-> TRUE]       \* Redis' nil reply
NoUpd  == [k \in {} |-> 0]

PROGRESS_GENERATING == 100     \* progress "生成中"; 1..n is "排队中 (位置: n)"
HOOK == "https://example.test/hook"
ERRMSG == "generation failed"

IsTerminal(s) == s \in Terminal

\* JSON.stringify(task): keys whose value is undefined are left out
JsonStringify(task) == [k \in {f \in Fields : task[f] # Undefined(f)} |-> task[k]]
\* JSON.parse(data): a key that is not in the text reads back as undefined
JsonParse(data) == [k \in Fields |-> IF k \in DOMAIN data THEN data[k] ELSE Undefined(k)]

\* create(): the record built from `data`
NewTask(id, cb) ==
    [id |-> id, status |-> "pending", progress |-> 0, completed_at |-> 0,
     result |-> 0, error |-> "undefined", callback_url |-> cb]

\* update(): { ...task, ...updates, id: task.id }
MergeTakesId(task, updates) ==
    [k \in Fields |-> IF k \in DOMAIN updates THEN updates[k] ELSE task[k]]
MergeDropResult(task, updates) ==
    [k \in Fields |-> IF k \in DOMAIN updates /\ k \notin {"id", "result"}
                      THEN updates[k] ELSE task[k]]
Merge(task, updates) ==
    [k \in Fields |-> IF k \in DOMAIN updates /\ k # "id" THEN updates[k] ELSE task[k]]

(* ------------------------------ TaskStore ------------------------------ *)
RedisLive == useRedis /\ redis              \* `this.useRedis && this.redis`

MemGet(id) == memoryStore[id]               \* memoryStore.get(id), copied

RedisGetReply(id) ==                        \* data ? JSON.parse(data) : null
    IF redisData[id] = NoKey THEN NoTask ELSE JsonParse(redisData[id])

\* a handler's locals: pc its position in the caller, op the store call in
\* flight, ph the await it is suspended at ("rget", "set", "expire", "sadd": a
\* Redis command; "get": update()'s `await this.get(id)`; "ret": the caller's
\* await of the store call), loc the value held, err: the awaited Redis
\* command rejects, n: a loop counter
Thread(pc, op, ph, id, upd, loc, err) ==
    [pc |-> pc, op |-> op, ph |-> ph, id |-> id, upd |-> upd, loc |-> loc, err |-> err, n |-> 0]
Rest(pc) == Thread(pc, "none", "none", 0, NoUpd, NoTask, FALSE)
Returned(c, val) == Thread(c.pc, c.op, "ret", c.id, NoUpd, val, FALSE)

\* ready without h, which is its head when h runs as a microtask
Rem(h) == IF ready # << >> /\ Head(ready) = h THEN Tail(ready) ELSE ready

\* h is the microtask that runs now
Resumes(h) == ready # << >> /\ Head(ready) = h

\* the event loop: h awaits the Redis command it has just issued
AwaitRedis(h) ==
    /\ fifo' = Append(fifo, h)
    /\ ready' = Rem(h)
\* h awaits a settled promise: it resumes in this turn, after the handlers
\* that are already waiting to
AwaitSettled(h) ==
    /\ ready' = Append(Rem(h), h)
    /\ UNCHANGED fifo
\* h awaits something outside (or has ended)
Leave(h) ==
    /\ ready' = Rem(h)
    /\ UNCHANGED fifo
\* h calls get(): into fifo in Redis mode, resuming in this turn otherwise
AwaitGet(h) == IF RedisLive THEN AwaitRedis(h) ELSE AwaitSettled(h)

\* a new turn of the event loop can start
NewTurn == ready = << >>

\* a batch of Redis replies arrives: the handlers of the first k commands resume
RedisReplies ==
    /\ NewTurn
    /\ fifo # << >>
    /\ \E k \in 1..Len(fifo) :
         /\ ready' = SubSeq(fifo, 1, k)
         /\ fifo' = SubSeq(fifo, k + 1, Len(fifo))
    /\ UNCHANGED <<tasks, qvars, svars, now, thr, hvars>>

\* the fates of a Redis command being issued: TRUE it resolves, FALSE it rejects
\* (no command is issued once a rejection has degraded the store, so the
\* rejections of a run are those pending together)
Outcomes ==
    IF Cardinality({h \in DOMAIN thr : thr[h].err}) < MaxFailures THEN BOOLEAN ELSE {TRUE}

\* `await taskStore.get(id)` up to its first await; ok: the Redis GET will resolve
GetCall(pc, id, ok) ==
    IF RedisLive
    THEN Thread(pc, "get", "rget", id, NoUpd, IF ok THEN RedisGetReply(id) ELSE NoTask, ~ok)
    ELSE Thread(pc, "get", "ret", id, NoUpd, MemGet(id), FALSE)

\* `await taskStore.update(id, updates)` up to its first await, which is
\* inside get(id) in Redis mode and is `await this.get(id)` otherwise
UpdateCall(pc, id, upd, ok) ==
    IF RedisLive
    THEN Thread(pc, "update", "rget", id, upd, IF ok THEN RedisGetReply(id) ELSE NoTask, ~ok)
    ELSE Thread(pc, "update", "get", id, upd, MemGet(id), FALSE)

\* the await at ph of the store method op is inside the method's try block
InTryButExpire(op, ph) == ph # "expire"
InTry(op, ph) == TRUE

\* h resumes at an await whose Redis command rejected
Rejected(h) == thr[h].err
\* the rejection is not caught: the method's promise rejects, the caller's
\* await throws
Uncaught(h) == Rejected(h) /\ ~InTry(thr[h].op, thr[h].ph)
Throws(h) ==
    /\ thr' = [thr EXCEPT ![h] = [thr[h] EXCEPT !.ph = "threw", !.err = FALSE]]
    /\ Leave(h)

\* get(id) after `await this.redis.get(...)`: the catch degrades and reads the Map
GetResume(h) ==
    LET c == thr[h] IN
    /\ Resumes(h)
    /\ c.op = "get"
    /\ c.ph = "rget"
    /\ UNCHANGED <<tasks, qvars, redis, redisData, redisTtl, redisIdx, memoryStore, now, hvars>>
    /\ IF Uncaught(h)
       THEN /\ Throws(h)
            /\ UNCHANGED <<useRedis, cleanupTimer>>
       ELSE /\ useRedis' = (useRedis /\ ~c.err)
            /\ cleanupTimer' = (cleanupTimer \/ c.err)
            /\ thr' = [thr EXCEPT ![h] = Returned(c, IF c.err THEN MemGet(c.id) ELSE c.loc)]
            /\ AwaitSettled(h)

\* the catch blocks of update(): degrade and keep the merged record in the Map
UpdateCatch(h) ==
    LET c == thr[h] IN
    /\ useRedis' = FALSE
    /\ cleanupTimer' = TRUE
    /\ memoryStore' = [memoryStore EXCEPT ![c.id] = c.loc]
    /\ thr' = [thr EXCEPT ![h] = Returned(c, NoTask)]
    /\ AwaitSettled(h)
    /\ UNCHANGED <<redisData, redisTtl>>

\* update() returns
UpdateReturn(h) ==
    /\ thr' = [thr EXCEPT ![h] = Returned(thr[h], NoTask)]
    /\ AwaitSettled(h)

\* update(id, updates) from one await to the next
UpdateResume(h) ==
    LET c == thr[h] IN
    /\ Resumes(h)
    /\ c.op = "update"
    /\ c.ph \in {"rget", "get", "set", "expire"}
    /\ UNCHANGED <<tasks, qvars, redis, redisIdx, now, hvars>>
    /\ CASE Uncaught(h) ->
            /\ Throws(h)
            /\ UNCHANGED <<useRedis, cleanupTimer, redisData, redisTtl, memoryStore>>
         [] ~Uncaught(h) /\ c.ph = "rget" ->
            \* inside get(id), after `await this.redis.get(...)`
            /\ useRedis' = (useRedis /\ ~c.err)
            /\ cleanupTimer' = (cleanupTimer \/ c.err)
            /\ thr' = [thr EXCEPT ![h] = [c EXCEPT !.ph = "get", !.err = FALSE,
                                                   !.loc = IF c.err THEN MemGet(c.id) ELSE c.loc]]
            /\ AwaitSettled(h)
            /\ UNCHANGED <<redisData, redisTtl, memoryStore>>
         [] ~Uncaught(h) /\ c.ph = "get" ->
            \* after `await this.get(id)`
            IF c.loc = NoTask
            THEN /\ UpdateReturn(h)
                 /\ UNCHANGED <<useRedis, cleanupTimer, redisData, redisTtl, memoryStore>>
            ELSE LET updated == Merge(c.loc, c.upd) IN
                 IF RedisLive
                 THEN /\ \E ok \in Outcomes :
                           /\ redisData' = IF ok THEN [redisData EXCEPT ![c.id] = JsonStringify(updated)]
                                           ELSE redisData
                           /\ redisTtl' = IF ok THEN [redisTtl EXCEPT ![c.id] = 0] ELSE redisTtl
                           /\ thr' = [thr EXCEPT ![h] = Thread(c.pc, c.op, "set", c.id, NoUpd, updated, ~ok)]
                      /\ AwaitRedis(h)
                      /\ UNCHANGED <<useRedis, cleanupTimer, memoryStore>>
                 ELSE /\ memoryStore' = [memoryStore EXCEPT ![c.id] = updated]
                      /\ UpdateReturn(h)
                      /\ UNCHANGED <<useRedis, cleanupTimer, redisData, redisTtl>>
         [] ~Uncaught(h) /\ c.ph = "set" ->
            IF c.err
            THEN UpdateCatch(h)
            ELSE IF IsTerminal(c.loc.status)
            THEN /\ \E ok \in Outcomes :
                      /\ redisTtl' = IF ok /\ redisData[c.id] # NoKey
                                     THEN [redisTtl EXCEPT ![c.id] = now + EXPIRE_HOURS]
                                     ELSE redisTtl
                      /\ thr' = [thr EXCEPT ![h] = Thread(c.pc, c.op, "expire", c.id, NoUpd, c.loc, ~ok)]
                 /\ AwaitRedis(h)
                 /\ UNCHANGED <<useRedis, cleanupTimer, redisData, memoryStore>>
            ELSE /\ UpdateReturn(h)
                 /\ UNCHANGED <<useRedis, cleanupTimer, redisData, redisTtl, memoryStore>>
         [] ~Uncaught(h) /\ c.ph = "expire" ->
            IF c.err
            THEN UpdateCatch(h)
            ELSE /\ UpdateReturn(h)
                 /\ UNCHANGED <<useRedis, cleanupTimer, redisData, redisTtl, memoryStore>>
(* ------------------------------ TaskQueue ------------------------------ *)
Sub(t) == <<"sub", t>>          \* POST /generations for task t, then enqueue()
Job(t) == <<"job", t>>          \* execute() of task t's job body
Can(k) == <<"can", k>>          \* the k-th POST /:taskId/cancel
ThreadIds(T) == ({"sub", "job"} \X T) \cup ({"can"} \X (1..NCancels))

\* enqueue(): `this.running < this.maxConcurrent`
CanAdmitOffByOne(r, m) == r <= m
CanAdmit(r, m) == r < m

\* dequeue(): `this.queue.shift()`
QueueShiftLast(q) == [next |-> q[Len(q)], rest |-> SubSeq(q, 1, Len(q) - 1)]
QueueShift(q) == [next |-> Head(q), rest |-> Tail(q)]

\* cancelQueued(): `this.queue.findIndex(item => item.taskId === taskId)`, 0 for -1
FindIndexNone(q, id) == 0
FindIndex(q, id) ==
    IF \E i \in 1..Len(q) : q[i] = id
    THEN CHOOSE i \in 1..Len(q) : q[i] = id /\ \A j \in 1..(i - 1) : q[j] # id
    ELSE 0

\* cancelQueued(): `this.queue.splice(index, 1)`
SpliceNothing(q, i) == q
Splice(q, i) == SubSeq(q, 1, i - 1) \o SubSeq(q, i + 1, Len(q))

\* execute(): the running-- of the finally block, for either end of fn()
SlotsReleasedOnReturnOnly(how) == IF how = "threw" THEN 0 ELSE 1
SlotsNeverReleased(how) == 0
SlotsReleased(how) == 1

\* dequeue(): the two early returns
DequeueNever(q, r, m) == TRUE
DequeueWhenIdle(q, r, m) == Len(q) = 0 \/ r >= 1
DequeueReturnsEarly(q, r, m) == Len(q) = 0 \/ r >= m

\* getStats()
GetStats == [running |-> running, queued |-> Len(queue), maxConcurrent |-> maxConcurrent]

\* execute(): fn() up to its first await.  An opaque body just runs; a
\* generation body (routes) calls update(id, {status: "processing", ...})
StartJob(t, body, ok) ==
    IF body = "opaque"
    THEN Rest("running")
    ELSE UpdateCall("processing", t, [status |-> "processing", progress |-> PROGRESS_GENERATING], ok)

\* the event loop after handler h, which is not in rd, has called get() or
\* update() with the handlers rd ready and ff waiting for Redis
AfterGetCall(rd, ff, h) ==
    IF RedisLive
    THEN [ready |-> rd, fifo |-> Append(ff, h)]
    ELSE [ready |-> Append(rd, h), fifo |-> ff]
\* the event loop after the body of job t has run to its first await
AfterStartJob(rd, ff, t, body) ==
    IF body = "opaque" THEN [ready |-> rd, fifo |-> ff] ELSE AfterGetCall(rd, ff, Job(t))

\* enqueue(taskId, fn), called by handler Sub(t)
Enqueue(t, body) ==
    /\ UNCHANGED <<tasks, maxConcurrent, svars, now, removed, outcome, rel, generated, lastCancel, hook>>
    /\ IF CanAdmit(running, maxConcurrent)
       THEN /\ running' = running + 1
            /\ \E ok \in Outcomes :
                 thr' = [thr EXCEPT ![Sub(t)] = Rest("done"), ![Job(t)] = StartJob(t, body, ok)]
            /\ LET s == AfterStartJob(Rem(Sub(t)), fifo, t, body)
               IN  ready' = s.ready /\ fifo' = s.fifo
            /\ started' = Append(started, t)
            /\ UNCHANGED <<queue, pushed>>
       ELSE /\ queue' = Append(queue, t)
            /\ pushed' = Append(pushed, t)
            /\ \E ok \in Outcomes :
                 thr' = [thr EXCEPT ![Sub(t)] =
                            UpdateCall("enqueue", t, [status |-> "queued", progress |-> Len(queue')], ok)]
            /\ AwaitGet(Sub(t))
            /\ UNCHANGED <<running, started>>

\* enqueue(): `await taskStore.update(...)`, from one await to the next
EnqueueUpdate(t) == UpdateResume(Sub(t))

\* enqueue(): after `await taskStore.update(...)`
EnqueueReturn(t) ==
    /\ Resumes(Sub(t))
    /\ thr[Sub(t)].pc = "enqueue"
    /\ thr[Sub(t)].ph = "ret"
    /\ thr' = [thr EXCEPT ![Sub(t)] = Rest("done")]
    /\ Leave(Sub(t))
    /\ UNCHANGED <<tasks, qvars, svars, now, hvars>>

\* execute(): catch (when fn threw) and finally { this.running--; this.dequeue() }
Finally(t, how, body) ==
    LET r == running - SlotsReleased(how) IN
    /\ outcome' = [outcome EXCEPT ![t] = how]
    /\ rel' = [rel EXCEPT ![t] = @ + SlotsReleased(how)]
    /\ UNCHANGED <<tasks, maxConcurrent, svars, now, pushed, removed, generated, lastCancel, hook>>
    /\ IF DequeueReturnsEarly(queue, r, maxConcurrent)
       THEN /\ running' = r
            /\ thr' = [thr EXCEPT ![Job(t)] = Rest("finished")]
            /\ Leave(Job(t))
            /\ UNCHANGED <<queue, started>>
       ELSE LET s == QueueShift(queue)
                e == AfterStartJob(Rem(Job(t)), fifo, s.next, body)
            IN
            /\ running' = r + 1
            /\ queue' = s.rest
            /\ started' = Append(started, s.next)
            /\ \E ok \in Outcomes :
                 thr' = [thr EXCEPT ![Job(t)] = Rest("finished"),
                                    ![Job(s.next)] = StartJob(s.next, body, ok)]
            /\ ready' = e.ready
            /\ fifo' = e.fifo

\* cancelQueued(taskId): its effect, and the value it returns
CancelQueued(id) ==
    LET index == FindIndex(queue, id) IN
    IF index = 0
    THEN UNCHANGED <<queue, removed>>
    ELSE /\ queue' = Splice(queue, index)
         /\ removed' = removed \cup {id}
CancelQueuedReturn(id) == FindIndex(queue, id) # 0

(* --------------------- SpecQueue: the queue alone ---------------------- *)
\* a caller enqueues a job whose Task it has created
QEnqueue(t) ==
    /\ thr[Sub(t)].pc = "created"
    /\ Enqueue(t, "opaque")

\* an opaque job body returns
JobReturns(t) ==
    /\ thr[Job(t)].pc = "running"
    /\ Finally(t, "returned", "opaque")

\* an opaque job body throws
JobThrows(t) ==
    /\ thr[Job(t)].pc = "running"
    /\ Finally(t, "threw", "opaque")

\* a caller calls cancelQueued(t)
QCancel(t) ==
    /\ CancelQueued(t)
    /\ lastCancel' = [id |-> t, ret |-> CancelQueuedReturn(t), seq |-> 1 - lastCancel.seq]
    /\ UNCHANGED <<tasks, maxConcurrent, running, svars, now, thr, fifo, ready,
                   started, pushed, outcome, rel, generated, hook>>

InitHistory(T) ==
    /\ started = << >>
    /\ pushed = << >>
    /\ removed = {}
    /\ outcome = [t \in T |-> "none"]
    /\ rel = [t \in T |-> 0]
    /\ generated = [t \in T |-> 0]
    /\ lastCancel = [id |-> 0, ret |-> FALSE, seq |-> 0]
    /\ hook = [t \in T |-> << >>]

\* the store after init(): Redis connected, or memory mode with its sweep timer
InitStore(T, stored) ==
    /\ redis \in BOOLEAN
    /\ useRedis = redis
    /\ cleanupTimer = ~redis
    /\ redisData = [t \in T |-> IF redis /\ stored THEN JsonStringify(NewTask(t, "undefined")) ELSE NoKey]
    /\ redisTtl = [t \in T |-> 0]
    /\ redisIdx = IF redis /\ stored THEN T ELSE {}
    /\ memoryStore = [t \in T |-> IF ~redis /\ stored THEN NewTask(t, "undefined") ELSE NoTask]
    /\ now = 1
    /\ fifo = << >>
    /\ ready = << >>

\* the queue as constructed; the store holds the pending Task of every job
\* that is about to be enqueued
InitQueue ==
    /\ tasks = 1..NQueueJobs
    /\ maxConcurrent \in 1..MaxCapacity
    /\ running = 0
    /\ queue = << >>
    /\ InitStore(tasks, TRUE)
    /\ thr = [h \in ThreadIds(tasks) |-> IF h[1] = "sub" THEN Rest("created") ELSE Rest("idle")]
    /\ InitHistory(tasks)

NextQueue ==
    \/ \E t \in tasks : QEnqueue(t)
    \/ \E t \in tasks : EnqueueUpdate(t)
    \/ \E t \in tasks : EnqueueReturn(t)
    \/ \E t \in tasks : JobReturns(t)
    \/ \E t \in tasks : JobThrows(t)
    \/ \E t \in tasks : QCancel(t)
    \/ RedisReplies

SpecQueue == InitQueue /\ [][NextQueue]_vars

\* the queue when every started job body eventually returns or throws: a body
\* is a promise the caller's code settles, and once it is settled execute()'s
\* catch and finally run as a microtask without waiting for anything else
JobSettles(t) == JobReturns(t) \/ JobThrows(t)
SpecQueueFair ==
    SpecQueue /\ \A t \in 1..NQueueJobs : WF_vars(JobSettles(t))
(* ------------------------- Spec: the program --------------------------- *)
RETRY_DELAYS == <<5000, 15000, 30000>>

\* a value that JavaScript treats as true in `if (x)` / `x?.callback_url`
Truthy(k, v) == v # Undefined(k) /\ v # ""

\* create(data) up to its first await (POST /generations, async mode)
SubmitCreate(t, cb) ==
    /\ NewTurn
    /\ thr[Sub(t)].pc = "idle"
    /\ LET task == NewTask(t, cb) IN
         IF RedisLive
         THEN /\ \E ok \in Outcomes :
                   /\ redisData' = IF ok THEN [redisData EXCEPT ![t] = JsonStringify(task)] ELSE redisData
                   /\ thr' = [thr EXCEPT ![Sub(t)] = Thread("create", "create", "set", t, NoUpd, task, ~ok)]
              /\ AwaitRedis(Sub(t))
              /\ UNCHANGED memoryStore
         ELSE /\ memoryStore' = [memoryStore EXCEPT ![t] = task]
              /\ thr' = [thr EXCEPT ![Sub(t)] = Thread("create", "create", "ret", t, NoUpd, task, FALSE)]
              /\ AwaitSettled(Sub(t))
              /\ UNCHANGED redisData
    /\ UNCHANGED <<tasks, qvars, redis, useRedis, cleanupTimer, redisTtl, redisIdx, now, hvars>>

\* create(data) from one await to the next
CreateResume(h) ==
    LET c == thr[h] IN
    /\ Resumes(h)
    /\ c.op = "create"
    /\ c.ph \in {"set", "sadd"}
    /\ UNCHANGED <<tasks, qvars, redis, redisData, redisTtl, now, hvars>>
    /\ IF Uncaught(h)
       THEN /\ Throws(h)
            /\ UNCHANGED <<useRedis, cleanupTimer, redisIdx, memoryStore>>
       ELSE IF c.err
       THEN /\ useRedis' = FALSE
            /\ cleanupTimer' = TRUE
            /\ memoryStore' = [memoryStore EXCEPT ![c.id] = c.loc]
            /\ thr' = [thr EXCEPT ![h] = Returned(c, c.loc)]
            /\ AwaitSettled(h)
            /\ UNCHANGED redisIdx
       ELSE IF c.ph = "set"
       THEN /\ \E ok \in Outcomes :
                 /\ redisIdx' = IF ok THEN redisIdx \cup {c.id} ELSE redisIdx
                 /\ thr' = [thr EXCEPT ![h] = Thread(c.pc, c.op, "sadd", c.id, NoUpd, c.loc, ~ok)]
            /\ AwaitRedis(h)
            /\ UNCHANGED <<useRedis, cleanupTimer, memoryStore>>
       ELSE /\ thr' = [thr EXCEPT ![h] = Returned(c, c.loc)]
            /\ AwaitSettled(h)
            /\ UNCHANGED <<useRedis, cleanupTimer, redisIdx, memoryStore>>

SubmitCreateResume(t) == CreateResume(Sub(t))

\* the route after `await taskStore.create(...)`: taskQueue.enqueue(task.id, fn),
\* not awaited, then the answer { task_id, status: "pending" }
SubmitEnqueue(t) ==
    /\ Resumes(Sub(t))
    /\ thr[Sub(t)].pc = "create"
    /\ thr[Sub(t)].ph = "ret"
    /\ Enqueue(t, "generation")

\* the route has answered: the client knows the task id
Answered(t) == thr[Sub(t)].pc \in {"enqueue", "done"}

\* job body: update(), from one await to the next
JobUpdate(t) == UpdateResume(Job(t))

\* job body after update({status: "processing"}): the generation is called
JobGenerate(t) ==
    /\ Resumes(Job(t))
    /\ thr[Job(t)].pc = "processing"
    /\ thr[Job(t)].ph = "ret"
    /\ thr' = [thr EXCEPT ![Job(t)] = Rest("generate")]
    /\ Leave(Job(t))
    /\ UNCHANGED <<tasks, qvars, svars, now, hvars>>

\* the generation resolves: update(id, {status: "completed", result, completed_at})
GenerateOk(t) ==
    /\ NewTurn
    /\ thr[Job(t)].pc = "generate"
    /\ \E r \in 1..NResults, ok \in Outcomes :
         /\ thr' = [thr EXCEPT ![Job(t)] =
                       UpdateCall("completed", t,
                                  [status |-> "completed", result |-> r, completed_at |-> now], ok)]
         /\ generated' = [generated EXCEPT ![t] = r]
    /\ AwaitGet(Job(t))
    /\ UNCHANGED <<tasks, qvars, svars, now, started, pushed, removed, outcome, rel, lastCancel, hook>>

\* the generation throws: catch, update(id, {status: "failed", error, completed_at})
GenerateFail(t) ==
    /\ NewTurn
    /\ thr[Job(t)].pc = "generate"
    /\ \E ok \in Outcomes :
         thr' = [thr EXCEPT ![Job(t)] =
                    UpdateCall("failed", t,
                               [status |-> "failed", error |-> ERRMSG, completed_at |-> now], ok)]
    /\ AwaitGet(Job(t))
    /\ UNCHANGED <<tasks, qvars, svars, now, hvars>>

\* job body after the terminal update: `finalTask = await taskStore.get(task.id)`
JobFinalGet(t) ==
    /\ Resumes(Job(t))
    /\ thr[Job(t)].pc \in {"completed", "failed"}
    /\ thr[Job(t)].ph = "ret"
    /\ \E ok \in Outcomes :
         thr' = [thr EXCEPT ![Job(t)] = GetCall("final", t, ok)]
    /\ AwaitGet(Job(t))
    /\ UNCHANGED <<tasks, qvars, svars, now, hvars>>

JobGetResume(t) == GetResume(Job(t))

\* `finalTask?.callback_url`
WantsWebhook(finalTask) ==
    finalTask # NoTask /\ Truthy("callback_url", finalTask.callback_url)

\* formatTaskResponse(task): the fields the model keeps; a key that is not
\* set reads as undefined
FormatTaskResponse(task) ==
    [task_id |-> task.id,
     status |-> task.status,
     completed_at |-> task.completed_at,
     result |-> IF task.status = "completed" /\ task.result # Undefined("result")
                THEN task.result ELSE Undefined("result"),
     error |-> IF task.status = "failed" /\ Truthy("error", task.error)
               THEN task.error ELSE Undefined("error")]

\* what an axios.post can end with: a response with its status, or none
Answers ==
    {[kind |-> "response", status |-> s] : s \in {199, 200, 302, 399, 400, 500}}
        \cup {[kind |-> k, status |-> 0] : k \in {"network error", "timeout"}}

\* validateStatus
ValidateStatusOnly2xx(status) == status >= 200 /\ status < 300
ValidateStatus(status) == status >= 200 /\ status < 400

\* axios.post resolves: there is a response and validateStatus accepts it
Resolves(a) == a.kind = "response" /\ ValidateStatus(a.status)

\* sendWebhook(): `attempt >= RETRY_DELAYS.length`
IsLastAttempt(attempt) == attempt >= Len(RETRY_DELAYS)

\* sendWebhook(): how its catch block ends when the last attempt has failed
AfterLastFailureThrows == "throw"
AfterLastFailure == "return"

\* the job body returns: execute()'s `await fn()` resumes in this turn
BodyReturns(t) ==
    /\ thr' = [thr EXCEPT ![Job(t)] = Rest("return")]
    /\ AwaitSettled(Job(t))
    /\ UNCHANGED <<tasks, qvars, svars, now, qhvars>>

\* job body after the final get: sendWebhook(url, finalTask) up to its first
\* axios.post, or the end of the body
JobAfterFinal(t) ==
    /\ Resumes(Job(t))
    /\ thr[Job(t)].pc = "final"
    /\ thr[Job(t)].ph = "ret"
    /\ IF WantsWebhook(thr[Job(t)].loc)
       THEN /\ thr' = [thr EXCEPT ![Job(t)] = [@ EXCEPT !.pc = "webhook", !.op = "none", !.ph = "post", !.n = 0]]
            /\ hook' = [hook EXCEPT ![t] = @ \o <<[ev |-> "call", payload |-> FormatTaskResponse(thr[Job(t)].loc)],
                                                   [ev |-> "post"]>>]
            /\ Leave(Job(t))
            /\ UNCHANGED <<tasks, qvars, svars, now, qhvars>>
       ELSE /\ BodyReturns(t)
            /\ UNCHANGED hook

\* a finally that would run as soon as the body has handed over to sendWebhook
JobFinallyBeforeWebhook(t) ==
    /\ \/ Resumes(Job(t)) /\ thr[Job(t)].pc = "return"
       \/ NewTurn /\ thr[Job(t)].pc = "webhook"
    /\ Finally(t, "returned", "generation")

\* execute() after `await fn()`: finally { this.running--; this.dequeue() }
JobFinally(t) ==
    /\ Resumes(Job(t))
    /\ thr[Job(t)].pc = "return"
    /\ Finally(t, "returned", "generation")

\* sendWebhook(): the axios.post of this attempt ends with an answer of A.
\* When it resolves, or after the failure of the last attempt, sendWebhook
\* returns and with it the job body; after any other failure the timer
\* RETRY_DELAYS[attempt] is set
WebhookAnswer(t, A) ==
    /\ NewTurn
    /\ thr[Job(t)].pc = "webhook"
    /\ thr[Job(t)].ph = "post"
    /\ \E a \in A :
         LET attempt == thr[Job(t)].n IN
         IF ~Resolves(a) /\ IsLastAttempt(attempt) /\ AfterLastFailure = "throw"
         THEN /\ hook' = [hook EXCEPT ![t] = @ \o <<[ev |-> "answer", answer |-> a], [ev |-> "throw"]>>]
              /\ thr' = [thr EXCEPT ![Job(t)] = Rest("threw")]
              /\ UNCHANGED <<tasks, qvars, svars, now, fifo, ready, qhvars>>
         ELSE IF Resolves(a) \/ IsLastAttempt(attempt)
         THEN /\ hook' = [hook EXCEPT ![t] = @ \o <<[ev |-> "answer", answer |-> a], [ev |-> "return"]>>]
              /\ BodyReturns(t)
         ELSE /\ hook' = [hook EXCEPT ![t] = @ \o <<[ev |-> "answer", answer |-> a],
                                                     [ev |-> "wait", delay |-> RETRY_DELAYS[attempt + 1]]>>]
              /\ thr' = [thr EXCEPT ![Job(t)] = [@ EXCEPT !.ph = "sleep"]]
              /\ UNCHANGED <<tasks, qvars, svars, now, fifo, ready, qhvars>>

\* sendWebhook(): the retry timer fires, attempt++, the next axios.post is made
WebhookTimer(t) ==
    /\ NewTurn
    /\ thr[Job(t)].pc = "webhook"
    /\ thr[Job(t)].ph = "sleep"
    /\ thr' = [thr EXCEPT ![Job(t)] = [@ EXCEPT !.ph = "post", !.n = @ + 1]]
    /\ hook' = [hook EXCEPT ![t] = Append(@, [ev |-> "post"])]
    /\ UNCHANGED <<tasks, qvars, svars, now, fifo, ready, qhvars>>

\* POST /:taskId/cancel for task t, up to `await taskStore.get(taskId)`
CancelStart(k, t) ==
    /\ NewTurn
    /\ Answered(t)
    /\ thr[Can(k)].pc = "idle"
    /\ \E ok \in Outcomes :
         thr' = [thr EXCEPT ![Can(k)] = GetCall("lookup", t, ok)]
    /\ AwaitGet(Can(k))
    /\ UNCHANGED <<tasks, qvars, svars, now, hvars>>

CancelGetResume(k) == GetResume(Can(k))

\* the cancel route: the statuses it accepts
Cancellable(task) == task # NoTask /\ task.status \in {"pending", "queued"}

\* the cancel route after the get: the two throws, or cancelQueued(taskId) and
\* update(taskId, {status: "cancelled", completed_at}) up to its first await
CancelCheck(k) ==
    LET t == thr[Can(k)].id IN
    /\ Resumes(Can(k))
    /\ thr[Can(k)].pc = "lookup"
    /\ thr[Can(k)].ph = "ret"
    /\ UNCHANGED <<tasks, maxConcurrent, running, svars, now, started, pushed, outcome, rel, generated, lastCancel, hook>>
    /\ IF Cancellable(thr[Can(k)].loc)
       THEN /\ CancelQueued(t)
            /\ \E ok \in Outcomes :
                 thr' = [thr EXCEPT ![Can(k)] =
                            UpdateCall("cancel", t, [status |-> "cancelled", completed_at |-> now], ok)]
            /\ AwaitGet(Can(k))
       ELSE /\ thr' = [thr EXCEPT ![Can(k)] = Thread("rejected", "none", "none", t, NoUpd, NoTask, FALSE)]
            /\ Leave(Can(k))
            /\ UNCHANGED <<queue, removed>>

CancelUpdate(k) == UpdateResume(Can(k))

\* the cancel route answers { task_id, status: "cancelled" }
CancelAnswer(k) ==
    /\ Resumes(Can(k))
    /\ thr[Can(k)].pc = "cancel"
    /\ thr[Can(k)].ph = "ret"
    /\ thr' = [thr EXCEPT ![Can(k)] = Thread("answered", "none", "none", thr[Can(k)].id, NoUpd, NoTask, FALSE)]
    /\ Leave(Can(k))
    /\ UNCHANGED <<tasks, qvars, svars, now, hvars>>

\* init(): the listener of the client's "error" event
RedisErrorEvent ==
    /\ NewTurn
    /\ redis
    /\ useRedis
    /\ useRedis' = FALSE
    /\ cleanupTimer' = TRUE
    /\ UNCHANGED <<tasks, qvars, redis, redisData, redisTtl, redisIdx, memoryStore, now,
                   thr, fifo, ready, hvars>>

\* the process after start-up: queue constructed, store initialised, no task
Init ==
    /\ tasks = 1..NTasks
    /\ maxConcurrent \in 1..MaxCapacity
    /\ running = 0
    /\ queue = << >>
    /\ InitStore(tasks, FALSE)
    /\ thr = [h \in ThreadIds(tasks) |-> Rest("idle")]
    /\ InitHistory(tasks)

\* the steps of the program that do not depend on callback_url
Program ==
    \/ \E t \in tasks : SubmitCreateResume(t)
    \/ \E t \in tasks : SubmitEnqueue(t)
    \/ \E t \in tasks : EnqueueUpdate(t)
    \/ \E t \in tasks : EnqueueReturn(t)
    \/ \E t \in tasks : JobUpdate(t)
    \/ \E t \in tasks : JobGenerate(t)
    \/ \E t \in tasks : GenerateOk(t)
    \/ \E t \in tasks : GenerateFail(t)
    \/ \E t \in tasks : JobFinalGet(t)
    \/ \E t \in tasks : JobGetResume(t)
    \/ \E t \in tasks : JobAfterFinal(t)
    \/ \E t \in tasks : JobFinally(t)
    \/ \E k \in 1..NCancels, t \in tasks : CancelStart(k, t)
    \/ \E k \in 1..NCancels : CancelGetResume(k)
    \/ \E k \in 1..NCancels : CancelCheck(k)
    \/ \E k \in 1..NCancels : CancelUpdate(k)
    \/ \E k \in 1..NCancels : CancelAnswer(k)
    \/ RedisReplies
    \/ RedisErrorEvent

Next ==
    \/ \E t \in tasks : SubmitCreate(t, "undefined")
    \/ Program

Spec == Init /\ [][Next]_vars

\* the steps the process takes by itself: continuations of handlers that were
\* started, Redis replies, and the generation call settling.  Requests
\* (submit, cancel) and the client's "error" event are not among them
Continues ==
    \/ \E t \in tasks : SubmitCreateResume(t)
    \/ \E t \in tasks : SubmitEnqueue(t)
    \/ \E t \in tasks : EnqueueUpdate(t)
    \/ \E t \in tasks : EnqueueReturn(t)
    \/ \E t \in tasks : JobUpdate(t)
    \/ \E t \in tasks : JobGenerate(t)
    \/ \E t \in tasks : GenerateOk(t)
    \/ \E t \in tasks : GenerateFail(t)
    \/ \E t \in tasks : JobFinalGet(t)
    \/ \E t \in tasks : JobGetResume(t)
    \/ \E t \in tasks : JobAfterFinal(t)
    \/ \E t \in tasks : JobFinally(t)
    \/ \E k \in 1..NCancels : CancelGetResume(k)
    \/ \E k \in 1..NCancels : CancelCheck(k)
    \/ \E k \in 1..NCancels : CancelUpdate(k)
    \/ \E k \in 1..NCancels : CancelAnswer(k)
    \/ RedisReplies

\* the program when the event loop keeps running and the generation call
\* terminates: a continuation that can run eventually does
SpecFair == Spec /\ WF_vars(Continues)

\* the receiver's answers in SpecHook: it accepts or answers with an error
ProgramAnswers == {a \in Answers : a.kind = "response" /\ a.status \in {200, 500}}

\* the program when the first request carries a callback_url
NextHook ==
    \/ \E t \in tasks : SubmitCreate(t, IF t = 1 THEN HOOK ELSE "undefined")
    \/ Program
    \/ \E t \in tasks : WebhookAnswer(t, ProgramAnswers)
    \/ \E t \in tasks : WebhookTimer(t)

SpecHook == Init /\ [][NextHook]_vars

(* --------------------- SpecWebhook: sendWebhook alone ------------------- *)
\* the records a job body can hold in finalTask when it calls sendWebhook
FinalTasks ==
    { Merge(NewTask(1, HOOK), u) :
        u \in { [status |-> "completed", result |-> 1, completed_at |-> 1],
                [status |-> "failed", error |-> ERRMSG, completed_at |-> 1],
                [status |-> "cancelled", completed_at |-> 1],
                [status |-> "processing", progress |-> PROGRESS_GENERATING] } }

\* a job body of task 1 is back from its final get with finalTask, the
\* record that is stored
InitWebhook ==
    /\ tasks = {1}
    /\ maxConcurrent = 1
    /\ running = 1
    /\ queue = << >>
    /\ redis \in BOOLEAN
    /\ useRedis = redis
    /\ cleanupTimer = ~redis
    /\ \E task \in FinalTasks :
          /\ redisData = [t \in tasks |-> IF redis THEN JsonStringify(task) ELSE NoKey]
          /\ memoryStore = [t \in tasks |-> IF redis THEN NoTask ELSE task]
          /\ thr = [h \in ThreadIds(tasks) |->
                      IF h = Job(1) THEN Thread("final", "get", "ret", 1, NoUpd, task, FALSE)
                      ELSE IF h = Sub(1) THEN Rest("done") ELSE Rest("idle")]
    /\ redisTtl = [t \in tasks |-> 0]
    /\ redisIdx = IF redis THEN tasks ELSE {}
    /\ now = 1
    /\ fifo = << >>
    /\ ready = <<Job(1)>>
    /\ InitHistory(tasks)

NextWebhook ==
    \/ JobAfterFinal(1)
    \/ WebhookAnswer(1, Answers)
    \/ WebhookTimer(1)
    \/ JobFinally(1)

SpecWebhook == InitWebhook /\ [][NextWebhook]_vars


(* ---------------------- SpecStore: the store alone --------------------- *)
Boot == <<"init", 0>>           \* TaskStore.init()
Cli(i) == <<"cli", i>>          \* the caller of the i-th get/update/list/delete of the run
Timer == <<"timer", 0>>         \* the interval callback of startMemoryCleanup()
StoreThreadIds(T) == {Boot, Timer} \cup ({"sub"} \X T) \cup ({"cli"} \X (1..NClients))

\* init() has returned
BootDone == thr[Boot].pc = "done"

\* init(): REDIS_URL is not set
BootNoUrl ==
    /\ NewTurn
    /\ thr[Boot].pc = "start"
    /\ cleanupTimer' = TRUE
    /\ thr' = [thr EXCEPT ![Boot] = Rest("done")]
    /\ UNCHANGED <<tasks, qvars, redis, useRedis, redisData, redisTtl, redisIdx, memoryStore,
                   now, fifo, ready, hvars>>

\* init(): the client is constructed, its listeners registered, connect() called
BootConnect ==
    /\ NewTurn
    /\ thr[Boot].pc = "start"
    /\ redis' = TRUE
    /\ thr' = [thr EXCEPT ![Boot] = Rest("connecting")]
    /\ UNCHANGED <<tasks, qvars, useRedis, cleanupTimer, redisData, redisTtl, redisIdx,
                   memoryStore, now, fifo, ready, hvars>>

\* init(): `await this.redis.connect()` resolves
BootConnected ==
    /\ NewTurn
    /\ thr[Boot].pc = "connecting"
    /\ useRedis' = TRUE
    /\ thr' = [thr EXCEPT ![Boot] = Rest("done")]
    /\ UNCHANGED <<tasks, qvars, redis, cleanupTimer, redisData, redisTtl, redisIdx,
                   memoryStore, now, fifo, ready, hvars>>

\* init(): the import or connect() rejects, the catch block runs
BootFails ==
    /\ NewTurn
    /\ thr[Boot].pc \in {"start", "connecting"}
    /\ redis' = FALSE
    /\ useRedis' = FALSE
    /\ cleanupTimer' = TRUE
    /\ thr' = [thr EXCEPT ![Boot] = Rest("done")]
    /\ UNCHANGED <<tasks, qvars, redisData, redisTtl, redisIdx, memoryStore,
                   now, fifo, ready, hvars>>

\* init(): the listener of the client's "connect" event; u is useRedis
OnConnectRestores(u) == TRUE
OnConnect(u) == u

\* the client reconnects after the store was degraded and emits "connect":
\* the listener logs a line (counted in n)
RedisConnectEvent ==
    /\ NewTurn
    /\ BootDone
    /\ redis
    /\ ~useRedis
    /\ thr[Boot].n < MaxConnects
    /\ useRedis' = OnConnect(useRedis)
    /\ thr' = [thr EXCEPT ![Boot] = [@ EXCEPT !.n = @ + 1]]
    /\ UNCHANGED <<tasks, qvars, redis, cleanupTimer, redisData, redisTtl, redisIdx,
                   memoryStore, now, fifo, ready, hvars>>

\* a caller's create(data) has returned
CreateReturn(t) ==
    /\ Resumes(Sub(t))
    /\ thr[Sub(t)].pc = "create"
    /\ thr[Sub(t)].ph = "ret"
    /\ thr' = [thr EXCEPT ![Sub(t)] = Rest("done")]
    /\ Leave(Sub(t))
    /\ UNCHANGED <<tasks, qvars, svars, now, hvars>>

\* a caller's create(data): the id is a new uuid
StoreCreate(t) == BootDone /\ SubmitCreate(t, "undefined")

\* the i-th call can be made: init() has returned, the calls before it too
CanCall(i) ==
    /\ BootDone
    /\ thr[Cli(i)].pc = "idle"
    /\ i > 1 => thr[Cli(i - 1)].pc = "done"

\* a caller calls get(id)
CliGet(i, id) ==
    /\ NewTurn
    /\ CanCall(i)
    /\ \E ok \in Outcomes : thr' = [thr EXCEPT ![Cli(i)] = GetCall("get", id, ok)]
    /\ AwaitGet(Cli(i))
    /\ UNCHANGED <<tasks, qvars, svars, now, hvars>>

\* the `updates` that callers pass, for a call on id at time t
Partials(id, t) ==
    { [status |-> "processing", progress |-> PROGRESS_GENERATING],
      [status |-> "completed", result |-> 1, completed_at |-> t],
      [id |-> id + 1, status |-> "queued"] }

\* a caller calls update(id, updates)
CliUpdate(i, id) ==
    /\ NewTurn
    /\ CanCall(i)
    /\ \E upd \in Partials(id, now), ok \in Outcomes :
         thr' = [thr EXCEPT ![Cli(i)] = UpdateCall("update", id, upd, ok)]
    /\ AwaitGet(Cli(i))
    /\ UNCHANGED <<tasks, qvars, svars, now, hvars>>

CliGetResume(i) == GetResume(Cli(i))
CliUpdateResume(i) == UpdateResume(Cli(i))

\* the value list() returns: the ids of the records it collected
Listed(S) == [ids |-> S]

\* list(): Array.from(this.memoryStore.values())
MemList == {t \in tasks : memoryStore[t] # NoTask}

\* a caller calls list(), up to its first await
CliList(i) ==
    /\ NewTurn
    /\ CanCall(i)
    /\ IF RedisLive
       THEN /\ \E ok \in Outcomes :
                 thr' = [thr EXCEPT ![Cli(i)] =
                            Thread("list", "list", "smembers", 0, NoUpd, Listed(redisIdx), ~ok)]
            /\ AwaitRedis(Cli(i))
       ELSE /\ thr' = [thr EXCEPT ![Cli(i)] = Thread("list", "list", "ret", 0, NoUpd, Listed(MemList), FALSE)]
            /\ AwaitSettled(Cli(i))
    /\ UNCHANGED <<tasks, qvars, svars, now, hvars>>

\* list(): the catch block
ListCatch(h) ==
    /\ useRedis' = FALSE
    /\ cleanupTimer' = TRUE
    /\ thr' = [thr EXCEPT ![h] = Returned(thr[h], Listed(MemList))]
    /\ AwaitSettled(h)
    /\ UNCHANGED <<redisIdx>>

\* list(): the ids of c.upd, in the order of the loop, whose key was missing
\* and that the loop has not reached yet
NextMissing(missing) == CHOOSE t \in missing : \A u \in missing : t <= u

\* list() from one await to the next.  loc.ids are the ids that smembers
\* returned, then the ids whose record was read; upd.missing the ids whose
\* key pipeline.exec() found missing and that are not yet removed from the index
CliListResume(i) ==
    LET h == Cli(i)
        c == thr[h]
    IN
    /\ Resumes(h)
    /\ c.op = "list"
    /\ c.ph \in {"smembers", "exec", "srem"}
    /\ UNCHANGED <<tasks, qvars, redis, redisData, redisTtl, memoryStore, now, hvars>>
    /\ IF Uncaught(h)
       THEN /\ Throws(h)
            /\ UNCHANGED <<useRedis, cleanupTimer, redisIdx>>
       ELSE IF c.err
       THEN ListCatch(h)
       ELSE /\ UNCHANGED <<useRedis, cleanupTimer>>
            /\ CASE c.ph = "smembers" ->
                    IF c.loc.ids = {}
                    THEN /\ thr' = [thr EXCEPT ![h] = Returned(c, Listed({}))]
                         /\ AwaitSettled(h)
                         /\ UNCHANGED redisIdx
                    ELSE /\ \E ok \in Outcomes :
                              thr' = [thr EXCEPT ![h] =
                                  Thread(c.pc, c.op, "exec", 0,
                                         [missing |-> {t \in c.loc.ids : redisData[t] = NoKey}],
                                         Listed({t \in c.loc.ids : redisData[t] # NoKey}), ~ok)]
                         /\ AwaitRedis(h)
                         /\ UNCHANGED redisIdx
                 [] c.ph \in {"exec", "srem"} ->
                    IF c.upd.missing = {}
                    THEN /\ thr' = [thr EXCEPT ![h] = Returned(c, c.loc)]
                         /\ AwaitSettled(h)
                         /\ UNCHANGED redisIdx
                    ELSE LET t == NextMissing(c.upd.missing) IN
                         /\ \E ok \in Outcomes :
                              /\ redisIdx' = IF ok THEN redisIdx \ {t} ELSE redisIdx
                              /\ thr' = [thr EXCEPT ![h] =
                                  Thread(c.pc, c.op, "srem", 0,
                                         [missing |-> c.upd.missing \ {t}], c.loc, ~ok)]
                         /\ AwaitRedis(h)

\* a caller calls delete(id), up to its first await
CliDelete(i, id) ==
    /\ NewTurn
    /\ CanCall(i)
    /\ UNCHANGED <<tasks, qvars, redis, useRedis, cleanupTimer, redisIdx, now, hvars>>
    /\ IF RedisLive
       THEN /\ \E ok \in Outcomes :
                 /\ redisData' = IF ok THEN [redisData EXCEPT ![id] = NoKey] ELSE redisData
                 /\ redisTtl' = IF ok THEN [redisTtl EXCEPT ![id] = 0] ELSE redisTtl
                 /\ thr' = [thr EXCEPT ![Cli(i)] = Thread("delete", "delete", "del", id, NoUpd, NoTask, ~ok)]
            /\ AwaitRedis(Cli(i))
            /\ UNCHANGED memoryStore
       ELSE /\ memoryStore' = [memoryStore EXCEPT ![id] = NoTask]
            /\ thr' = [thr EXCEPT ![Cli(i)] = Thread("delete", "delete", "ret", id, NoUpd, NoTask, FALSE)]
            /\ AwaitSettled(Cli(i))
            /\ UNCHANGED <<redisData, redisTtl>>

\* delete(id) from one await to the next
CliDeleteResume(i) ==
    LET h == Cli(i)
        c == thr[h]
    IN
    /\ Resumes(h)
    /\ c.op = "delete"
    /\ c.ph \in {"del", "srem"}
    /\ UNCHANGED <<tasks, qvars, redis, redisData, redisTtl, now, hvars>>
    /\ IF Uncaught(h)
       THEN /\ Throws(h)
            /\ UNCHANGED <<useRedis, cleanupTimer, redisIdx, memoryStore>>
       ELSE IF c.err
       THEN /\ useRedis' = FALSE
            /\ cleanupTimer' = TRUE
            /\ memoryStore' = [memoryStore EXCEPT ![c.id] = NoTask]
            /\ thr' = [thr EXCEPT ![h] = Returned(c, NoTask)]
            /\ AwaitSettled(h)
            /\ UNCHANGED redisIdx
       ELSE IF c.ph = "del"
       THEN /\ \E ok \in Outcomes :
                 /\ redisIdx' = IF ok THEN redisIdx \ {c.id} ELSE redisIdx
                 /\ thr' = [thr EXCEPT ![h] = Thread(c.pc, c.op, "srem", c.id, NoUpd, NoTask, ~ok)]
            /\ AwaitRedis(h)
            /\ UNCHANGED <<useRedis, cleanupTimer, memoryStore>>
       ELSE /\ thr' = [thr EXCEPT ![h] = Returned(c, NoTask)]
            /\ AwaitSettled(h)
            /\ UNCHANGED <<useRedis, cleanupTimer, redisIdx, memoryStore>>

\* the store call of a caller has returned to it
CliReturn(i) ==
    /\ Resumes(Cli(i))
    /\ thr[Cli(i)].ph = "ret"
    /\ thr' = [thr EXCEPT ![Cli(i)] = Rest("done")]
    /\ Leave(Cli(i))
    /\ UNCHANGED <<tasks, qvars, svars, now, hvars>>

\* startMemoryCleanup(): the test of the sweep, at time t
ExpiredAtThreshold(task, t) ==
    /\ task.completed_at # 0
    /\ task.completed_at <= t - EXPIRE_HOURS
    /\ IsTerminal(task.status)
Expired(task, t) ==
    /\ task.completed_at # 0
    /\ task.completed_at < t - EXPIRE_HOURS
    /\ IsTerminal(task.status)

\* the records a sweep at time t deletes
Sweepable(t) == {id \in tasks : memoryStore[id] # NoTask /\ Expired(memoryStore[id], t)}

\* startMemoryCleanup(): the interval callback; its `cleaned` is kept in loc
Sweep ==
    /\ NewTurn
    /\ cleanupTimer
    /\ memoryStore' = [id \in tasks |-> IF id \in Sweepable(now) THEN NoTask ELSE memoryStore[id]]
    /\ thr' = [thr EXCEPT ![Timer] = [@ EXCEPT !.loc = [cleaned |-> Cardinality(Sweepable(now))]]]
    /\ UNCHANGED <<tasks, qvars, redis, useRedis, cleanupTimer, redisData, redisTtl, redisIdx,
                   now, fifo, ready, hvars>>

\* no store call is in flight
Quiet == \A h \in DOMAIN thr : thr[h].pc \in {"idle", "done"}

\* an hour passes between two calls; Redis drops the keys whose EXPIRE
\* deadline is reached
Tick ==
    /\ NewTurn
    /\ Quiet
    /\ now < MaxNow
    /\ now' = now + 1
    /\ redisData' = [t \in tasks |-> IF redisTtl[t] # 0 /\ redisTtl[t] <= now + 1 THEN NoKey ELSE redisData[t]]
    /\ redisTtl' = [t \in tasks |-> IF redisTtl[t] # 0 /\ redisTtl[t] <= now + 1 THEN 0 ELSE redisTtl[t]]
    /\ UNCHANGED <<tasks, qvars, redis, useRedis, cleanupTimer, redisIdx, memoryStore,
                   thr, fifo, ready, hvars>>

\* the process before init(): no client, no timer, both stores empty
InitStoreSpec ==
    /\ tasks = 1..NTasks
    /\ maxConcurrent = 1
    /\ running = 0
    /\ queue = << >>
    /\ redis = FALSE
    /\ useRedis = FALSE
    /\ cleanupTimer = FALSE
    /\ redisData = [t \in tasks |-> NoKey]
    /\ redisTtl = [t \in tasks |-> 0]
    /\ redisIdx = {}
    /\ memoryStore = [t \in tasks |-> NoTask]
    /\ now = 1
    /\ fifo = << >>
    /\ ready = << >>
    /\ thr = [h \in StoreThreadIds(tasks) |-> IF h = Boot THEN Rest("start") ELSE Rest("idle")]
    /\ InitHistory(tasks)

NextStore ==
    \/ BootNoUrl
    \/ BootConnect
    \/ BootConnected
    \/ BootFails
    \/ RedisConnectEvent
    \/ RedisErrorEvent
    \/ RedisReplies
    \/ \E t \in tasks : StoreCreate(t)
    \/ \E t \in tasks : SubmitCreateResume(t)
    \/ \E t \in tasks : CreateReturn(t)
    \/ \E i \in 1..NClients, id \in tasks : CliGet(i, id)
    \/ \E i \in 1..NClients, id \in tasks : CliUpdate(i, id)
    \/ \E i \in 1..NClients : CliList(i)
    \/ \E i \in 1..NClients, id \in tasks : CliDelete(i, id)
    \/ \E i \in 1..NClients : CliGetResume(i)
    \/ \E i \in 1..NClients : CliUpdateResume(i)
    \/ \E i \in 1..NClients : CliListResume(i)
    \/ \E i \in 1..NClients : CliDeleteResume(i)
    \/ \E i \in 1..NClients : CliReturn(i)
    \/ Sweep
    \/ Tick

SpecStore == InitStoreSpec /\ [][NextStore]_vars

\* getMode()
GetMode == IF useRedis THEN "redis" ELSE "memory"
(* ------------------------- claims on SpecQueue ------------------------- *)
Range(q) == {q[i] : i \in 1..Len(q)}
Index(q, x) == CHOOSE i \in 1..Len(q) : q[i] = x
Without(q, x) == SelectSeq(q, LAMBDA y : y # x)
RunningJobs == {t \in tasks : thr[Job(t)].pc = "running"}
NoCompletion == \A t \in tasks : outcome[t] = "none"

\* C1: in every reachable state of the queue, under any interleaving of
\* enqueue, job return, job throw, dequeue and cancelQueued,
\* 0 <= running <= maxConcurrent.
C1_RunningWithinCapacity ==
    /\ maxConcurrent >= 1
    /\ 0 <= running
    /\ running <= maxConcurrent

\* the queue is full and a job waits, after a job has thrown and cancelQueued was called
C1_Witness ==
    /\ running = maxConcurrent
    /\ queue # << >>
    /\ lastCancel.id # 0
    /\ \E t \in tasks : outcome[t] = "threw"

\* C2: of two jobs that both joined the waiting list and were not removed by
\* cancelQueued, the one that joined first has its body started first: whenever
\* the later one has started, the earlier one started before it.
C2_FifoPromotion ==
    \A i, j \in 1..Len(pushed) :
        (i < j /\ pushed[i] \notin removed /\ pushed[j] \notin removed
               /\ pushed[j] \in Range(started))
        => /\ pushed[i] \in Range(started)
           /\ Index(started, pushed[i]) < Index(started, pushed[j])

\* two jobs waited together and both have been promoted, after a cancelQueued call
C2_Witness ==
    /\ Len(pushed) >= 2
    /\ pushed[1] \in Range(started)
    /\ pushed[2] \in Range(started)
    /\ lastCancel.id # 0

\* C3: with maxConcurrent = N, after N + k enqueue calls (k > 0) and no
\* completion or cancellation, getStats reports running = N and queued = k, the
\* k waiting in submission order; and every step in which a job finishes while the
\* waiting list is non-empty leaves running = N and queued one less, with the
\* former head of the list now running.
C3_Submitted == Len(started) + Len(pushed)
C3_BackToBack ==
    (NoCompletion /\ removed = {} /\ C3_Submitted > maxConcurrent)
    => /\ GetStats.running = maxConcurrent
       /\ GetStats.queued = C3_Submitted - maxConcurrent
       /\ Len(started) = maxConcurrent
       /\ queue = pushed
C3_FinishStep ==
    \A t \in tasks :
        (outcome[t] = "none" /\ outcome'[t] # "none" /\ queue # << >>)
        => /\ running = maxConcurrent
           /\ running' = maxConcurrent
           /\ Len(queue') = Len(queue) - 1
           /\ queue' = Tail(queue)
           /\ thr[Job(Head(queue))].pc = "idle"
           /\ thr'[Job(Head(queue))].pc = "running"
C3_StatsScenario == [] C3_BackToBack /\ [][C3_FinishStep]_vars

\* the scenario of the specification: N = 2, three jobs, job 1 finished, job 3 runs
C3_Witness ==
    /\ maxConcurrent = 2
    /\ started = <<1, 2, 3>>
    /\ pushed = <<3>>
    /\ outcome[1] = "returned"
    /\ GetStats.running = 2
    /\ GetStats.queued = 0
    /\ thr[Job(3)].pc = "running"

\* C4: a job body that throws releases its slot exactly once and promotes the
\* head of the waiting list, if any; running always equals the number of job
\* bodies in flight, so no slot stays occupied by a job that has ended.
C4_SlotAccounting ==
    /\ running = Cardinality(RunningJobs)
    /\ \A t \in tasks : rel[t] = IF outcome[t] = "none" THEN 0 ELSE 1
C4_ThrowStep ==
    \A t \in tasks :
        (outcome[t] = "none" /\ outcome'[t] = "threw")
        => /\ rel'[t] = 1
           /\ thr'[Job(t)].pc = "finished"
           /\ IF queue = << >>
              THEN running' = running - 1 /\ queue' = queue
              ELSE /\ running' = running
                   /\ queue' = Tail(queue)
                   /\ thr'[Job(Head(queue))].pc = "running"
C4_ThrowReleasesSlot == [] C4_SlotAccounting /\ [][C4_ThrowStep]_vars

\* a job threw while another waited, and the waiting one has been started
C4_Witness ==
    \E t, u \in tasks :
        /\ outcome[t] = "threw"
        /\ u \in Range(pushed)
        /\ u \in Range(started)
        /\ Index(started, u) = Index(started, t) + 1

\* C5: cancelQueued(id) returns true exactly when an entry for id is in the
\* waiting list at the call, and then removes that entry and nothing else; when
\* it returns false (the job runs, has run, or was never queued) the waiting
\* list is unchanged; in both cases running and every job body are untouched.
C5_CancelStep ==
    (lastCancel' # lastCancel)
    => LET id == lastCancel'.id IN
       /\ lastCancel'.ret = (id \in Range(queue))
       /\ lastCancel'.ret => (queue' = Without(queue, id) /\ Len(queue') = Len(queue) - 1)
       /\ ~lastCancel'.ret => queue' = queue
       /\ thr[Job(id)].pc # "idle" => (~lastCancel'.ret /\ queue' = queue)
       /\ running' = running
       /\ thr' = thr
C5_CancelQueued == [][C5_CancelStep]_vars

\* one entry was removed, and the last call, for a running job, returned false
C5_Witness ==
    /\ removed # {}
    /\ lastCancel.id # 0
    /\ ~lastCancel.ret
    /\ thr[Job(lastCancel.id)].pc = "running"
    /\ queue # << >>

(* ----------------------- claims on SpecQueue, continued ----------------- *)
\* C22: in every reachable state of the queue, under any interleaving of
\* enqueue, job return, job throw and cancelQueued, a job waits only while
\* every slot is taken: a non-empty waiting list implies running = maxConcurrent
C22_WorkConserving ==
    queue # << >> => running = maxConcurrent

\* a job still waits with every slot taken, after a job has returned and the
\* job that waited before it was promoted into the freed slot
C22_Witness ==
    /\ queue # << >>
    /\ running = maxConcurrent
    /\ \E t \in tasks : outcome[t] = "returned"
    /\ \E t \in Range(pushed) : t \in Range(started)

\* C23: each enqueue call leads to at most one execution of its job body (no
\* task id appears twice in the order of started bodies), and a job whose entry
\* a cancelQueued call removed (returning true) is never executed
C23_AtMostOnce ==
    /\ \A i, j \in 1..Len(started) : started[i] = started[j] => i = j
    /\ removed \cap Range(started) = {}

\* an entry was removed by cancelQueued, a job that waited with it was promoted
\* and has finished, and the queue has drained
C23_Witness ==
    /\ removed # {}
    /\ running = 0
    /\ queue = << >>
    /\ \E t \in Range(pushed) : t \in Range(started) /\ outcome[t] # "none"

(* ------------------------- claims on SpecQueueFair ---------------------- *)
\* C24: when every started job body eventually returns or throws, every job
\* in the waiting list is eventually started unless cancelQueued removes it,
\* and the queue always comes back to running = 0 with an empty waiting list
\* once the enqueue calls have stopped
C24_Waits(t) == \E i \in 1..Len(queue) : queue[i] = t
C24_Drained == running = 0 /\ queue = << >>
C24_Liveness ==
    /\ \A t \in 1..NQueueJobs :
          C24_Waits(t) ~> (t \in removed \/ \E i \in 1..Len(started) : started[i] = t)
    /\ []<>C24_Drained

\* every enqueue call has been made, two jobs waited and were both promoted,
\* every body has settled and the queue has drained
C24_Witness ==
    /\ Len(started) = NQueueJobs
    /\ Len(pushed) = 2
    /\ \A t \in tasks : outcome[t] # "none"
    /\ C24_Drained

(* --------------------------- claims on Spec ---------------------------- *)
\* what get(t) returns when it is called in this state
Stored(t) == IF RedisLive THEN RedisGetReply(t) ELSE MemGet(t)
StatusOf(task) == IF task = NoTask THEN "none" ELSE task.status

\* every Task record held by Redis or by the Map
Records ==
    {JsonParse(redisData[t]) : t \in {u \in tasks : redisData[u] # NoKey}}
        \cup {memoryStore[t] : t \in {u \in tasks : memoryStore[u] # NoTask}}

\* no Redis failure has degraded the store in this run
NeverDegraded == useRedis = redis

\* C6: once the status that get(t) returns is terminal, it is never a different
\* status afterwards.  Stated for the runs in which no Redis failure occurs,
\* where the record is never lost
C6_TerminalIsFinal ==
    [][\A t \in tasks :
         (NeverDegraded' /\ IsTerminal(StatusOf(Stored(t))))
             => StatusOf(Stored(t))' = StatusOf(Stored(t))]_vars

\* C7: in every stored record completed_at is present exactly when the status
\* is completed, failed or cancelled
C7_CompletedAtIffTerminal ==
    \A task \in Records : (task.completed_at # Undefined("completed_at")) <=> IsTerminal(task.status)

\* C8: in every stored record result is present only with status completed and
\* error only with status failed, so never both
C8_ResultErrorByStatus ==
    \A task \in Records :
        /\ task.result # Undefined("result") => task.status = "completed"
        /\ task.error # Undefined("error") => task.status = "failed"
        /\ ~(task.result # Undefined("result") /\ task.error # Undefined("error"))

\* the job body of t has just been handed the record of its final get(t), which
\* follows its update(t, {status: "completed", result}) directly
C9_FinalGetReturns(t) ==
    /\ generated[t] # 0
    /\ thr'[Job(t)].pc = "final"
    /\ thr'[Job(t)].ph = "ret"
    /\ ~(thr[Job(t)].pc = "final" /\ thr[Job(t)].ph = "ret")
\* no cancel request has named t, and no Redis failure has occurred
C9_Undisturbed(t) ==
    /\ \A k \in 1..NCancels : thr[Can(k)].id # t
    /\ NeverDegraded
    /\ \A h \in DOMAIN thr : ~thr[h].err

\* C9: update(t, {status: completed, result: R}) followed by get(t), with no
\* other operation on t in between and the store in one mode throughout,
\* returns a record with status completed, result R and no error
C9_RoundTrip ==
    [][\A t \in tasks :
         (C9_FinalGetReturns(t) /\ C9_Undisturbed(t)')
             => /\ thr'[Job(t)].loc # NoTask
                /\ thr'[Job(t)].loc.status = "completed"
                /\ thr'[Job(t)].loc.result = generated[t]
                /\ thr'[Job(t)].loc.error = Undefined("error")]_vars
C9_Witness ==
    \E t \in tasks :
        /\ thr[Job(t)].pc = "final"
        /\ thr[Job(t)].ph = "ret"
        /\ generated[t] # 0
        /\ C9_Undisturbed(t)
        /\ RedisLive
        /\ thr[Job(t)].loc # NoTask
        /\ thr[Job(t)].loc.result = generated[t]
        /\ \E k \in 1..NCancels : thr[Can(k)].pc = "answered"

\* the catch block of a store operation has just run for a Redis command
\* that rejected
C10_FailureCaught == \E h \in DOMAIN thr : thr[h].err /\ ~thr'[h].err
\* create() has returned the Task of t to the route
C10_Created(t) ==
    \/ thr[Sub(t)].pc \in {"enqueue", "done"}
    \/ thr[Sub(t)].pc = "create" /\ thr[Sub(t)].ph = "ret"

\* C10: when a Redis command fails inside a store operation, the store is in
\* memory mode afterwards and get(t) still returns every task created so far
C10_StaysQueryable ==
    [][C10_FailureCaught =>
          /\ ~RedisLive'
          /\ \A t \in tasks : C10_Created(t)' => Stored(t)' # NoTask]_vars

\* enqueue()'s update of t to queued is applied by this step: it changes the
\* record of t in Redis or in the Map
C18_QueuedWritten(t) ==
    /\ EnqueueUpdate(t)
    /\ redisData'[t] # redisData[t] \/ memoryStore'[t] # memoryStore[t]

\* C18: the step that applies the queued-status write of enqueue(t) is taken
\* while t is still in the waiting list: its job has not been started and its
\* entry has not been removed by cancelQueued.  Stated for the runs in which
\* no Redis command rejects and the store never degrades
C18_QueuedWriteInEnqueue ==
    [][\A t \in tasks :
          (C18_QueuedWritten(t) /\ NeverDegraded /\ \A h \in DOMAIN thr : ~thr[h].err)
              => /\ t \in Range(queue)
                 /\ t \notin Range(started)
                 /\ t \notin removed]_vars

\* C19: once a job body has thrown into execute() and the wrapper is done
\* with it, with no handler left to run and no Redis reply awaited, the Task
\* of that job is stored with status failed and an error message
C19_ThrowRecorded ==
    \A t \in tasks :
        (/\ outcome[t] = "threw"
         /\ thr[Job(t)].pc = "finished"
         /\ ready = << >>
         /\ fifo = << >>)
            => /\ Stored(t) # NoTask
               /\ Stored(t).status = "failed"
               /\ Truthy("error", Stored(t).error)

(* --------------------------- claims on SpecStore ------------------------ *)

\* C11: once init() has returned, from a state in which getMode() reports
\* "memory" every step of the store (calls, Redis replies, error and connect
\* events, sweeps, time) leads to a state in which it reports "memory"
C11_ModeMonotonic ==
    [][(BootDone /\ GetMode = "memory") => GetMode' = "memory"]_vars

\* the store was degraded while its client existed, the client reconnected,
\* and calls have been served since
C11_Witness ==
    /\ BootDone
    /\ redis
    /\ GetMode = "memory"
    /\ thr[Boot].n = MaxConnects
    /\ \A i \in 1..NClients : thr[Cli(i)].pc = "done"
    /\ \E t \in tasks : memoryStore[t] # NoTask

\* a store method is in flight in h or has just settled
InStoreCall(h) == thr[h].op \in {"create", "get", "update", "list", "delete"}

\* C12: when create, get, update, list or delete resumes at an await whose
\* Redis command rejected, whichever await it is, the method goes on in
\* memory mode or returns to its caller; no rejection reaches the caller
C12_ReturnsNormally ==
    [][\A h \in DOMAIN thr :
          (InStoreCall(h) /\ Rejected(h) /\ thr'[h] # thr[h])
              => /\ thr'[h].ph \in {"ret", "get"}
                 /\ ~useRedis'
                 /\ cleanupTimer']_vars

\* update() has returned after its EXPIRE rejected: the record it wrote is
\* in Redis and, by its catch block, in the Map
C12_Witness ==
    \E i \in 1..NClients, t \in tasks :
        /\ thr[Cli(i)].op = "update"
        /\ thr[Cli(i)].ph = "ret"
        /\ thr[Cli(i)].id = t
        /\ redisData[t] # NoKey
        /\ memoryStore[t] # NoTask
        /\ JsonParse(redisData[t]) = memoryStore[t]
        /\ IsTerminal(memoryStore[t].status)
        /\ redis
        /\ ~useRedis

\* C17: a sweep runs in memory mode only and deletes exactly the stored
\* records that are terminal with completed_at earlier than now minus the
\* retention window: those are absent from list() afterwards, and every
\* record that is not terminal or completed within the window is kept as it was
C17_SweepRemovesExpired ==
    [][Sweep =>
          /\ GetMode = "memory"
          /\ \A id \in tasks :
                memoryStore[id] # NoTask =>
                    IF /\ IsTerminal(memoryStore[id].status)
                       /\ memoryStore[id].completed_at # 0
                       /\ memoryStore[id].completed_at < now - EXPIRE_HOURS
                    THEN id \notin MemList'
                    ELSE id \in MemList' /\ memoryStore'[id] = memoryStore[id]]_vars

\* the last sweep deleted one record, completed before the window, and a
\* record completed exactly one window ago is still stored
C17_Witness ==
    /\ thr[Timer].loc = [cleaned |-> 1]
    /\ \E id \in tasks :
          /\ thr[Sub(id)].pc = "done"
          /\ memoryStore[id] = NoTask
    /\ \E id \in tasks :
          /\ memoryStore[id] # NoTask
          /\ memoryStore[id].status = "completed"
          /\ memoryStore[id].completed_at = now - EXPIRE_HOURS

\* update()'s `await this.get(id)` has returned null to the update in h
C20_FoundNone(h) == thr[h].ph = "get" /\ thr[h].loc = NoTask

\* C20: a step of update(id, partial) changes no record of another id, in
\* Redis or in the Map, and not the index; after its get(id) returned null it
\* changes no record at all; a record it writes carries id, whatever
\* partial.id is
C20_UpdateFrame ==
    [][\A i \in 1..NClients :
          CliUpdateResume(i) =>
              LET id == thr[Cli(i)].id IN
              /\ \A t \in tasks \ {id} :
                    redisData'[t] = redisData[t] /\ memoryStore'[t] = memoryStore[t]
              /\ redisIdx' = redisIdx
              /\ C20_FoundNone(Cli(i)) =>
                    redisData' = redisData /\ memoryStore' = memoryStore
              /\ redisData'[id] # redisData[id] => JsonParse(redisData'[id]).id = id
              /\ memoryStore'[id] # memoryStore[id] => memoryStore'[id].id = id]_vars

\* an update whose partial names another id has been applied to the record
\* of task 1, and an update of an id that was never created has returned
C20_Witness ==
    /\ Stored(1) # NoTask
    /\ Stored(1).status = "queued"
    /\ Stored(1).id = 1
    /\ thr[Cli(1)].pc = "done"
    /\ thr[Cli(2)].op = "update"
    /\ thr[Cli(2)].ph = "ret"
    /\ thr[Cli(2)].id = 2
    /\ thr[Sub(2)].pc = "idle"
    /\ Stored(2) = NoTask

(* ------------------- claims on SpecWebhook and SpecHook ----------------- *)
\* the positions in the history of task t's sendWebhook of the events ev
Events(t, ev) == {i \in DOMAIN hook[t] : hook[t][i].ev = ev}
\* the answer is a response with a status in [200, 400)
Accepted(a) == a.kind = "response" /\ a.status >= 200 /\ a.status < 400
\* the sendWebhook call of task t has returned
HookReturned(t) == Events(t, "return") # {}

\* C13: a sendWebhook call posts at most 4 times; it posts no more after an
\* attempt answered with a status in [200, 400); every post but the first
\* directly follows a wait, the waits being 5s, 15s, 30s in that order; the
\* 4th answer ends the call; a call that returned with no attempt accepted
\* made exactly 4 attempts
C13_RetrySchedule ==
    \A t \in tasks :
        LET h == hook[t]
            posts == Events(t, "post")
            waits == SelectSeq(h, LAMBDA e : e.ev = "wait")
        IN
        /\ Cardinality(posts) <= 4
        /\ \A i \in Events(t, "answer") :
              Accepted(h[i].answer) => \A j \in posts : j < i
        /\ \A j \in posts : h[j - 1].ev \in {"call", "wait"}
        /\ \A k \in 1..Len(waits) : k <= 3 /\ waits[k].delay = <<5000, 15000, 30000>>[k]
        /\ Cardinality(posts) \in {Len(waits), Len(waits) + 1}
        /\ Cardinality(Events(t, "answer")) = 4 => HookReturned(t)
        /\ (HookReturned(t) /\ \A i \in Events(t, "answer") : ~Accepted(h[i].answer))
              => Cardinality(posts) = 4 /\ Len(waits) = 3

\* a call has returned after four attempts that ended with a timeout, a
\* network error, a 500 and a 199
C13_Witness ==
    /\ HookReturned(1)
    /\ Cardinality(Events(1, "post")) = 4
    /\ \A a \in {[kind |-> "timeout", status |-> 0], [kind |-> "network error", status |-> 0],
                 [kind |-> "response", status |-> 500], [kind |-> "response", status |-> 199]} :
          \E i \in Events(1, "answer") : hook[1][i].answer = a
    /\ thr[Job(1)].pc = "finished"

\* C14: every step of a sendWebhook call, whatever its axios.post ends with,
\* leaves the records of Redis and of the Map, the index and the mode as they
\* are, and leaves the call waiting for an answer or a timer, or returned to
\* the job body: it never throws
C14_NoStoreMutation ==
    [][\A t \in tasks :
          (WebhookAnswer(t, Answers) \/ WebhookTimer(t)
               \/ (JobAfterFinal(t) /\ WantsWebhook(thr[Job(t)].loc)))
              => /\ UNCHANGED <<redisData, redisTtl, redisIdx, memoryStore, useRedis, redis>>
                 /\ Stored(t)' = Stored(t)
                 /\ thr'[Job(t)].pc \in {"webhook", "return"}
                 /\ Events(t, "throw")' = {}]_vars

\* a call for a failed task has returned after its last attempt timed out,
\* and the record is stored as the call found it
C14_Witness ==
    /\ HookReturned(1)
    /\ hook[1][Len(hook[1]) - 1] = [ev |-> "answer", answer |-> [kind |-> "timeout", status |-> 0]]
    /\ Stored(1) # NoTask
    /\ hook[1][1].payload = FormatTaskResponse(Stored(1))
    /\ Stored(1).status = "failed"

\* the generation of t's job body has thrown: the body is past it with no result
GenerationFailed(t) ==
    /\ generated[t] = 0
    /\ thr[Job(t)].pc \in {"failed", "final", "webhook", "return", "finished"}

\* C15: when the job body of the task created with a callback URL, its
\* generation having failed, comes back from its final get, the stored
\* status is failed and it calls sendWebhook, for the first time, with a
\* payload of status failed that carries the error string and no result
C15_FailureNotified ==
    [][(JobAfterFinal(1) /\ GenerationFailed(1))
          => /\ StatusOf(Stored(1)) = "failed"
             /\ hook'[1] = <<[ev |-> "call",
                              payload |-> [task_id |-> 1, status |-> "failed",
                                           completed_at |-> hook'[1][1].payload.completed_at,
                                           result |-> Undefined("result"), error |-> ERRMSG]],
                             [ev |-> "post"]>>]_vars

\* nothing is in flight: no handler is running or waiting, no job holds a
\* slot or waits in the queue
C16_AllDone ==
    /\ ready = << >>
    /\ fifo = << >>
    /\ running = 0
    /\ queue = << >>
    /\ \A h \in DOMAIN thr : thr[h].pc \in {"idle", "done", "finished", "answered", "rejected"}

\* C16: once nothing is in flight, if the task created with a callback URL is
\* stored with a terminal status, a sendWebhook call was made for it with a
\* payload of that status.  Stated for the runs in which the store never
\* degrades
C16_TerminalNotified ==
    (/\ C16_AllDone
     /\ NeverDegraded
     /\ Stored(1) # NoTask
     /\ IsTerminal(Stored(1).status)
     /\ Truthy("callback_url", Stored(1).callback_url))
        => \E i \in Events(1, "call") : hook[1][i].payload.status = Stored(1).status

(* ------------------------- claims on Spec, continued -------------------- *)
\* C21: the status that get(t) returns never steps back: from processing it
\* does not become queued or pending, from queued it does not become pending
C21_StatusForward ==
    [][\A t \in tasks :
          /\ StatusOf(Stored(t)) = "processing" => StatusOf(Stored(t))' \notin {"queued", "pending"}
          /\ StatusOf(Stored(t)) = "queued" => StatusOf(Stored(t))' # "pending"]_vars

\* the job body of t has been started and has not yet returned or thrown
C25_Executing(t) == (\E i \in 1..Len(started) : started[i] = t) /\ outcome[t] = "none"
\* no Redis failure has occurred in the run
C25_NoFailure == NeverDegraded /\ \A h \in DOMAIN thr : ~thr[h].err

\* C25: once the cancel route has answered with status cancelled for a task,
\* the job body of that task is not executing (it is neither still running nor
\* started afterwards).  Stated for the runs without a Redis failure
C25_CancelledNeverRuns ==
    \A k \in 1..NCancels :
        (C25_NoFailure /\ thr[Can(k)].pc = "answered") => ~C25_Executing(thr[Can(k)].id)

(* ---------------------------- claims on SpecFair ------------------------ *)
C26_Started(t) == \E i \in 1..Len(started) : started[i] = t
\* C26: when the generation call terminates, every task whose job body is
\* started eventually has a status of completed or failed that get(t) returns,
\* also when Redis fails and the store degrades while the job is running
C26_StartedTerminates ==
    \A t \in 1..NTasks :
        C26_Started(t) ~> (StatusOf(Stored(t)) \in {"completed", "failed"})

(* ------------------------- claims on Spec, continued -------------------- *)
\* every update called on t so far has completed, the last of the job body
\* being update(t, {status: "processing", progress}); no Redis failure occurred
C27_UpdatesCompleted(t) ==
    /\ thr[Job(t)].pc = "generate"
    /\ thr[Sub(t)].pc = "done"
    /\ \A k \in 1..NCancels : thr[Can(k)].pc \in {"idle", "answered", "rejected"}
    /\ C25_NoFailure
    /\ Stored(t) # NoTask

C28_Holding == {u \in tasks : C25_Executing(u)}

\* C28: while a job is in sendWebhook (posting, or waiting for a retry) it
\* holds its slot: it counts in running, running is the number of started
\* bodies that have not finished and stays within maxConcurrent, so no
\* waiting job has its slot; and no step taken from such a state releases it
C28_SlotHeldDuringWebhook ==
    [][\A t \in tasks :
         thr[Job(t)].pc = "webhook"
            => /\ t \in C28_Holding
               /\ rel[t] = 0
               /\ running = Cardinality(C28_Holding)
               /\ running <= maxConcurrent
               /\ rel'[t] = 0
               /\ outcome'[t] = "none"
               /\ running' = Cardinality(C28_Holding')
               /\ running' <= maxConcurrent]_vars

\* the job of task 1, stored with a terminal status, waits for its second
\* webhook retry while it holds the only slot and the job of task 2 waits
C28_Witness ==
    /\ maxConcurrent = 1
    /\ thr[Job(1)].pc = "webhook"
    /\ thr[Job(1)].ph = "sleep"
    /\ thr[Job(1)].n >= 1
    /\ IsTerminal(StatusOf(Stored(1)))
    /\ running = 1
    /\ queue = <<2>>
====
